---- MODULE Spec2Model ----
(***************************************************************************)
(* WhatsApp duplicate-message bot: the temporal-deduplication store.       *)
(*                                                                         *)
(* The model follows the bot with the day-anchored window                  *)
(* (src/unnamed/part_000), its earlier backup (src/backup/bot.js) and the  *)
(* bot with the rolling 24-hour window (src/bot.js); `variant` says which. *)
(* Instants are whole minutes since the Unix epoch (the code's Date values *)
(* are milliseconds; every instant of the model is a whole minute).        *)
(* Texts are sequences of one-character strings.                           *)
(***************************************************************************)
EXTENDS Integers, Sequences, FiniteSets, TLC

(***************************************************************************)
(* Calendar arithmetic behind Date, toLocaleDateString and toISOString.    *)
(***************************************************************************)
MinutesPerDay == 24 * 60

\* In what follows a value that is used more than once is bound by
\* CHOOSE r \in {e(x) : x \in {v}} : TRUE, which is e(v) with v evaluated once.

\* Days since 1970-01-01 of the proleptic Gregorian date y-m-d.
DaysFromCivil(y, m, d) ==
  LET yy  == IF m <= 2 THEN y - 1 ELSE y
      era == yy \div 400
      yoe == yy - era * 400
      mp  == IF m > 2 THEN m - 3 ELSE m + 9
      doy == (153 * mp + 2) \div 5 + d - 1
      doe == yoe * 365 + yoe \div 4 - yoe \div 100 + doy
  IN  era * 146097 + doe - 719468

\* The Gregorian date <<y, m, d>> of a day number.
CivilFromDays(z) ==
  LET zz  == z + 719468
      era == zz \div 146097
      doe == zz - era * 146097
      yoe == (doe - doe \div 1460 + doe \div 36524 - doe \div 146096) \div 365
      doy == doe - (365 * yoe + yoe \div 4 - yoe \div 100)
      mp  == (5 * doy + 2) \div 153
      d   == doy - (153 * mp + 2) \div 5 + 1
      m   == IF mp < 10 THEN mp + 3 ELSE mp - 9
      y   == yoe + era * 400 + (IF m <= 2 THEN 1 ELSE 0)
  IN  <<y, m, d>>

\* Day of the week of a day number, 0 = Sunday.
Weekday(z) == (z + 4) % 7

\* Day number of the last Sunday of a 31-day month.
LastSunday(y, m) ==
  (CHOOSE r \in {last - Weekday(last) :
                 last \in {DaysFromCivil(y, m, 31)}} : TRUE)

\* Asia/Jerusalem (rule in force since 2013): summer time starts on the
\* Friday before the last Sunday of March at 02:00 local (00:00 UTC) and ends
\* on the last Sunday of October at 02:00 local summer time (23:00 UTC of the
\* Saturday).
IsraelDstStart(y) == (LastSunday(y, 3) - 2) * MinutesPerDay
IsraelDstEnd(y)   == LastSunday(y, 10) * MinutesPerDay - 60

\* Minutes east of UTC of Asia/Jerusalem at instant t.
IsraelOffset(t) ==
  (CHOOSE r \in {(IF a[1] >= IsraelDstStart(a[2]) /\ a[1] < IsraelDstEnd(a[2])
                    THEN 180 ELSE 120) :
                 a \in {<<t, CivilFromDays(t \div MinutesPerDay)[1]>>}} : TRUE)

\* The timezones the process may run in (the TZ of the host).
LocalZones == {"Asia/Jerusalem", "UTC", "Asia/Dubai"}

\* Minutes east of UTC of a host zone at instant t.
ZoneOffset(zone, t) ==
  CASE zone = "Asia/Jerusalem" -> IsraelOffset(t)
    [] zone = "UTC"            -> 0
    [] zone = "Asia/Dubai"     -> 240

\* new Date(y, m - 1, d, h, mn).getTime() with minutes = 60 * h + mn: the
\* instant at which the host's clock shows that wall time on y-m-d.
LocalDate(zone, y, m, d, minutes) ==
  (CHOOSE r \in {(CASE zone = "Asia/Jerusalem" ->
                          IF IsraelOffset(wall - 180) = 180 THEN wall - 180
                                                            ELSE wall - 120
                     [] OTHER -> wall - ZoneOffset(zone, wall)) :
                 wall \in {DaysFromCivil(y, m, d) * MinutesPerDay
                             + minutes}} : TRUE)

\* new Date(y, m - 1, d, 0, 0, 0, 0).getTime(): the instant of 00:00 of
\* y-m-d on the host's clock.
LocalMidnight(zone, y, m, d) == LocalDate(zone, y, m, d, 0)

\* now.toLocaleDateString('en-US', {timeZone: 'Asia/Jerusalem'}) split on
\* '/': <<month, day, year>> of the Israel calendar date of now.
IsraelDateString(now) ==
  (CHOOSE r \in {<<c[2], c[3], c[1]>> :
                 c \in {CivilFromDays((now + IsraelOffset(now))
                                        \div MinutesPerDay)}} : TRUE)

\* getIsraelMidnight() evaluated at instant now on a host in zone.
getIsraelMidnight(now, zone) ==
  (CHOOSE r \in {LocalMidnight(zone, p[3], p[1], p[2]) :
                 p \in {IsraelDateString(now)}} : TRUE)

\* The instant of 00:00 Asia/Jerusalem of the Israel calendar date of now
\* (what the day boundary is meant to be).
IsraelDayStart(now) ==
  (CHOOSE r \in {LocalMidnight("Asia/Jerusalem", p[3], p[1], p[2]) :
                 p \in {IsraelDateString(now)}} : TRUE)

\* A date-only string, as date.toISOString().slice(0, 10) would give.
toDateOnlyString(t) ==
  (CHOOSE r \in {<<c[1], c[2], c[3], 0, 0>> :
                 c \in {CivilFromDays(t \div MinutesPerDay)}} : TRUE)

\* date.toISOString(): <<year, month, day, hour, minute>> in UTC (seconds
\* and milliseconds are zero for a whole minute).
toISOString(t) ==
  (CHOOSE r \in {<<a[1][1], a[1][2], a[1][3], a[2] \div 60, a[2] % 60>> :
                 a \in {<<CivilFromDays(t \div MinutesPerDay),
                          t % MinutesPerDay>>}} : TRUE)

\* getTime() of an Invalid Date.
NaN == 0 - 1

\* new Date(ts) for a string read from the file: an ISO string gives its
\* instant, any other string an Invalid Date.
DateFromString(s) ==
  IF Len(s) = 5
    THEN DaysFromCivil(s[1], s[2], s[3]) * MinutesPerDay + s[4] * 60 + s[5]
    ELSE NaN

\* DAY_MS of bot.js, in minutes.
DAY_MS == MinutesPerDay

\* The wall time, in minutes of the day, that the "[HH:MM" of a row's
\* data-pre-plain-text shows for a message sent at instant sent.  bot.js
\* launches the browser with timezoneId 'Asia/Jerusalem', so the page
\* renders Israel time whatever the zone of the host.
RowWallTime(sent) == (sent + IsraelOffset(sent)) % MinutesPerDay

\* bot.js: the date given to a message.  Without a data-pre-plain-text
\* attribute that starts "[HH:MM" it is `new Date()`; with one it is
\* new Date(now.getFullYear(), now.getMonth(), now.getDate(), h, mn): the
\* host's calendar date of now, in the host's zone, at the wall time the
\* row shows.
msgDate(now, zone, row) ==
  IF row.stamped
    THEN (CHOOSE r \in {LocalDate(zone, c[1], c[2], c[3],
                                  RowWallTime(row.sent)) :
                 c \in {CivilFromDays((now + ZoneOffset(zone, now))
                                        \div MinutesPerDay)}} : TRUE)
    ELSE now

\* toLocaleTimeString('en-US', {hour: '2-digit', minute: '2-digit',
\* hour12: false, timeZone: 'Asia/Jerusalem'}): <<HH, MM>>.  With hour12
\* false the en-US pattern counts the hours 1 to 24: the hour after midnight
\* is rendered 24.
IsraelHHMM(t) ==
  (CHOOSE r \in {<<(IF wall \div 60 = 0 THEN 24 ELSE wall \div 60),
                   wall % 60>> :
                 wall \in {(t + IsraelOffset(t)) % MinutesPerDay}} : TRUE)

\* The same call with the locale 'he-IL' (bot.js): the hours run 00 to 23.
IsraelHHMMHe(t) ==
  (CHOOSE r \in {<<wall \div 60, wall % 60>> :
                 wall \in {(t + IsraelOffset(t)) % MinutesPerDay}} : TRUE)


(***************************************************************************)
(* Message text: trim, split(/\s+/), filter, toLowerCase.                  *)
(***************************************************************************)
IsSpace(c) == c \in {" ", "\n", "\t"}

\* String.prototype.trim.
RECURSIVE TrimLeft(_)
TrimLeft(s) ==
  IF s # <<>> /\ IsSpace(Head(s)) THEN TrimLeft(Tail(s)) ELSE s
RECURSIVE TrimRight(_)
TrimRight(s) ==
  IF s # <<>> /\ IsSpace(s[Len(s)])
    THEN TrimRight(SubSeq(s, 1, Len(s) - 1)) ELSE s
Trim(s) == TrimRight(TrimLeft(s))

\* s.split(/\s+/): the pieces between maximal runs of whitespace; a run at
\* either end leaves an empty piece there, and the empty string gives [""].
RECURSIVE SplitFrom(_, _, _, _)
SplitFrom(s, i, cur, acc) ==
  IF i > Len(s) THEN Append(acc, cur)
  ELSE IF IsSpace(s[i])
    THEN IF i > 1 /\ IsSpace(s[i - 1])
           THEN SplitFrom(s, i + 1, cur, acc)
           ELSE SplitFrom(s, i + 1, <<>>, Append(acc, cur))
    ELSE SplitFrom(s, i + 1, Append(cur, s[i]), acc)
SplitWhitespace(s) == SplitFrom(s, 1, <<>>, <<>>)

\* .filter(word => word.length > 0)
NonEmptyWords(ws) == SelectSeq(ws, LAMBDA w : Len(w) > 0)

\* String.prototype.toLowerCase on the letters the model uses.
LowerChar(c) ==
  CASE c = "A" -> "a"
    [] c = "H" -> "h"
    [] c = "I" -> "i"
    [] c = "O" -> "o"
    [] c = "K" -> "k"
    [] OTHER   -> c
toLowerCase(s) == [i \in 1..Len(s) |-> LowerChar(s[i])]


(***************************************************************************)
(* The history Map: a sequence of entries [key, times] in insertion order  *)
(* (a JavaScript Map keeps the position of a key that is set again).       *)
(***************************************************************************)
MapKeys(m) == {m[i].key : i \in 1..Len(m)}
MapHas(m, k) == k \in MapKeys(m)

\* history.get(key) || []
MapGet(m, k) ==
  IF MapHas(m, k)
    THEN m[CHOOSE i \in 1..Len(m) : m[i].key = k].times
    ELSE <<>>

\* history.set(key, times)
MapSet(m, k, v) ==
  IF MapHas(m, k)
    THEN [i \in 1..Len(m) |-> IF m[i].key = k THEN [key |-> k, times |-> v]
                                               ELSE m[i]]
    ELSE Append(m, [key |-> k, times |-> v])

\* history.delete(key)
MapDelete(m, k) == SelectSeq(m, LAMBDA e : e.key # k)

(***************************************************************************)
(* Persistence: history.json.  A file is absent, or text that JSON.parse   *)
(* rejects ("empty": zero bytes, "garbage"), or a JSON object given by its *)
(* entries in order; an entry's value is an array of strings or something  *)
(* else (isArray = FALSE, as in {"ok": 5}).  A date string is the tuple    *)
(* toISOString builds; the empty tuple stands for a string that is no date.*)
(***************************************************************************)
AbsentFile  == [kind |-> "absent",  entries |-> <<>>]
EmptyFile   == [kind |-> "empty",   entries |-> <<>>]
GarbageFile == [kind |-> "garbage", entries |-> <<>>]
JsonFile(entries) == [kind |-> "json", entries |-> entries]

\* The object persist() builds and JSON.stringify writes.
Stringify(m) ==
  JsonFile([i \in 1..Len(m) |->
    [key     |-> m[i].key,
     isArray |-> TRUE,
     items   |-> [j \in 1..Len(m[i].times) |-> toISOString(m[i].times[j])]]])

\* date.toISOString() throws a RangeError on an Invalid Date.
CanStringify(m) ==
  \A i \in 1..Len(m) : \A j \in 1..Len(m[i].times) : m[i].times[j] # NaN

\* The process is killed inside writeFileSync, which opens the file with
\* O_TRUNC and then writes: "cut" leaves the file truncated and empty,
\* "torn" leaves a strict prefix of the JSON text.
KillOutcomes == {"cut", "torn"}

\* persist(): the file after the call.  io is what the disk does with
\* writeFileSync: "ok", "fail" (the call throws and the catch logs it), or
\* the process is killed inside it.
persist(m, file, io) ==
  IF ~CanStringify(m) THEN file
  ELSE CASE io = "ok"   -> Stringify(m)
         [] io = "cut"  -> EmptyFile
         [] io = "torn" -> GarbageFile
         [] OTHER       -> file

\* The loop of the startup load over Object.entries(parsedData): entries
\* are set one by one, and a value without .map throws out of the loop.
RECURSIVE LoadEntries(_, _, _)
LoadEntries(entries, i, m) ==
  IF i > Len(entries) THEN [table |-> m, threw |-> FALSE]
  ELSE IF ~entries[i].isArray THEN [table |-> m, threw |-> TRUE]
  ELSE LoadEntries(entries, i + 1,
         MapSet(m, entries[i].key,
                [j \in 1..Len(entries[i].items) |->
                   DateFromString(entries[i].items[j])]))

\* The startup load (try ... catch): the Map after it, and whether the
\* catch ran.
LoadHistory(file) ==
  CASE file.kind = "absent" -> [table |-> <<>>, threw |-> FALSE]
    [] file.kind = "json"   -> LoadEntries(file.entries, 1, <<>>)
    [] OTHER                -> [table |-> <<>>, threw |-> TRUE]

(***************************************************************************)
(* Eviction and reply.                                                     *)
(***************************************************************************)
\* A filter that drops the instant equal to the cutoff.
RecentStrictlyAfter(times, cutoff) ==
  SelectSeq(times, LAMBDA t : t # NaN /\ t > cutoff)

\* A filter done in place, splicing while it walks forward: the element
\* after a removed one is never looked at.
RECURSIVE SpliceFrom(_, _, _)
SpliceFrom(times, i, cutoff) ==
  IF i > Len(times) THEN times
  ELSE IF times[i] # NaN /\ times[i] >= cutoff
    THEN SpliceFrom(times, i + 1, cutoff)
    ELSE SpliceFrom(SubSeq(times, 1, i - 1) \o SubSeq(times, i + 1, Len(times)),
                    i + 1, cutoff)
RecentSplicing(times, cutoff) == SpliceFrom(times, 1, cutoff)

\* timestamps.filter(t => t.getTime() >= cutoffTimestamp); a comparison
\* with NaN is false.
RecentTimestamps(times, cutoff) ==
  SelectSeq(times, LAMBDA t : t # NaN /\ t >= cutoff)

\* The for-of loop of midnightPrune over the Map.
RECURSIVE PruneFrom(_, _, _)
PruneFrom(m, keys, cutoff) ==
  IF keys = <<>> THEN m
  ELSE LET k      == Head(keys)
           recent == RecentTimestamps(MapGet(m, k), cutoff)
       IN  PruneFrom(IF Len(recent) > 0 THEN MapSet(m, k, recent)
                                        ELSE MapDelete(m, k),
                     Tail(keys), cutoff)
PruneHistory(m, cutoff) ==
  PruneFrom(m, [i \in 1..Len(m) |-> m[i].key], cutoff)

\* times.sort((a, b) => a - b): ascending and stable.
RECURSIVE InsertSorted(_, _)
InsertSorted(sorted, t) ==
  IF sorted = <<>> THEN <<t>>
  ELSE IF t < Head(sorted) THEN <<t>> \o sorted
  ELSE <<Head(sorted)>> \o InsertSorted(Tail(sorted), t)
RECURSIVE SortAscending(_)
SortAscending(times) ==
  IF times = <<>> THEN <<>>
  ELSE InsertSorted(SortAscending(SubSeq(times, 1, Len(times) - 1)),
                    times[Len(times)])

\* buildReply(msg, times) of bot.js: times.sort((a, b) => b - a), newest
\* first.
buildReplyBot(msg, times) ==
  LET sorted == SortAscending(times)
      n      == Len(sorted)
  IN  [msg |-> msg,
       times |-> [i \in 1..n |-> IsraelHHMMHe(sorted[n + 1 - i])]]

\* buildReply(msg, times): the text quoted and the list of times, each
\* rendered HH:MM in Israel time, in ascending order.
buildReply(msg, times) ==
  LET sorted == SortAscending(times)
  IN  [msg |-> msg, times |-> [i \in 1..Len(sorted) |-> IsraelHHMM(sorted[i])]]


(***************************************************************************)
(* Bounds and inputs.                                                      *)
(***************************************************************************)
MaxEvents      == 2
MaxClock       == 2
\* Disruptions in one behaviour: a restart of the process, a writeFileSync
\* that fails, an await that rejects, a timer callback that starts while
\* another is still in flight, a page that stops answering.
MaxDisruptions == 1

\* 2024-01-10T21:00Z, 23:00 in Israel; the clock moves an hour at a time.
StartNow  == DaysFromCivil(2024, 1, 10) * MinutesPerDay + 21 * 60
ClockStep == MinutesPerDay \div 24

\* Timer callbacks that may be in flight at once.
TickIds == {1, 2}

\* What innerText() of the newest row may be.
RawTexts ==
  { <<"h", "i">>,
    <<" ">>,
    <<"a", " ", "b", " ", "c">>,
    <<"a", " ", "b", " ", "c", " ", "d">> }

\* "a b c" again, in another case and with other whitespace: it is offered
\* to part_000 and backup/bot.js; bot.js computes its key as they do.
SpacedText == <<" ", "A", " ", " ", "b", " ", "c">>
TextsFor(v) == IF v = "rolling" THEN RawTexts ELSE RawTexts \cup {SpacedText}

\* history.json as found by the first start.
Yesterday0800 == DaysFromCivil(2024, 1, 9) * MinutesPerDay + 6 * 60
Yesterday0900 == DaysFromCivil(2024, 1, 9) * MinutesPerDay + 7 * 60
TodayMidnight == DaysFromCivil(2024, 1, 9) * MinutesPerDay + 22 * 60
Today0800     == DaysFromCivil(2024, 1, 10) * MinutesPerDay + 6 * 60
\* history.json with a list that is not in the order of time, as an
\* edit by hand leaves it, or a run of bot.js on rows stamped with the time
\* they were sent.
UnsortedFile ==
  JsonFile(<<[key |-> <<"h", "i">>, isArray |-> TRUE,
              items |-> <<toISOString(Today0800),
                          toISOString(TodayMidnight)>>]>>)

InitFiles ==
  { AbsentFile, EmptyFile, GarbageFile,
    JsonFile(<<[key |-> <<"h", "i">>, isArray |-> TRUE,
                items |-> <<toISOString(Yesterday0800),
                            toISOString(Yesterday0900),
                            toISOString(TodayMidnight),
                            toISOString(Today0800)>>],
               [key |-> <<"o", "l", "d">>, isArray |-> TRUE,
                items |-> <<toISOString(Yesterday0800)>>],
               [key |-> <<"o", "k">>, isArray |-> TRUE,
                items |-> <<toISOString(Today0800)>>]>>),
    JsonFile(<<[key |-> <<"h", "i">>, isArray |-> TRUE,
                items |-> <<toISOString(Today0800)>>],
               [key |-> <<"o", "k">>, isArray |-> FALSE, items |-> <<>>]>>),
    JsonFile(<<[key |-> <<"h", "i">>, isArray |-> TRUE,
                items |-> << <<>> >>]>>) }

MAX_CONSECUTIVE_FAILURES == 10
MAX_IDS == 2000

\* The ids of rows without a text node (pictures, stickers) the Set comes
\* to hold before such rows stop arriving: one more than MAX_IDS, to take it over.
MaxPictures == 2001
\* The messages among them.
MaxCeilingEvents == 1

(***************************************************************************)
(* State.                                                                  *)
(***************************************************************************)
VARIABLES
  variant,              \* "current" (part_000), "backup" (backup/bot.js)
                        \* or "rolling" (bot.js)
  zone,                 \* the host's timezone
  now,                  \* the clock
  newest,               \* the data-id of the last message of the chat
                        \* (0: none yet)
  history,              \* the Map
  processedIds,         \* the Set: the ids of the rows of this behaviour
  pictureLast,          \* the last row of the chat when it has no text
                        \* node (a picture, a sticker): its name, 0 when
                        \* the last row is a message or the chat is empty
  pictureIds,           \* the number of ids of such rows in the Set
  pictureIn,            \* the rows among them a callback may still ask
                        \* the Set about whose id is in it
  lastPruneMidnight,
  file,                 \* history.json
  ticks,                \* the timer callbacks in flight
  consecutiveFailures,
  alive,                \* FALSE once process.exit(1) ran
  restarts,             \* process starts after the first
  disruptions,          \* disruptions so far
  texts,                \* what innerText() gave for the rows read so far
  admitted,             \* observation: <<id, day>> of every id that passed the seen-id filter
  deliveries,           \* observation: per key, the qualifying deliveries so far
  recorded,             \* observation: the ids history.set has run for
  page,                 \* the WhatsApp page: "up", or "down" (every await
                        \* on it rejects)
  obs,                  \* observation: what the last step did to an event
  boot,                 \* observation: the last startup, until the next step
  evicted               \* observation: the last midnightPrune, until the next step

vars == <<variant, zone, now, newest, pictureLast, history,
          processedIds, pictureIds, pictureIn,
          lastPruneMidnight,
          file, ticks, consecutiveFailures, alive, restarts, disruptions,
          texts, admitted, deliveries, recorded, page, obs, boot, evicted>>

\* A row whose text has not been read yet, and a row without a text node.
\* stamped is whether the rows of this page show the time a message was
\* sent in a data-pre-plain-text attribute, and sent is that instant; only
\* bot.js looks at them.
Unread == [read |-> FALSE, hasText |-> FALSE, text |-> <<>>, sent |-> 0,
           stamped |-> FALSE]
NoTextNode == [read |-> TRUE, hasText |-> FALSE, text |-> <<>>, sent |-> 0,
               stamped |-> FALSE]
TextNode(t, sent, stamped) == [read |-> TRUE, hasText |-> TRUE, text |-> t,
                               sent |-> sent, stamped |-> stamped]
NoReply == [msg |-> <<>>, times |-> <<>>]
IdleTick == [pc |-> "idle", id |-> 0, pic |-> 0, text |-> <<>>, key |-> <<>>,
             prev |-> <<>>, cur |-> 0, epoch |-> 0, gen |-> <<0, 0>>]
NoBoot == [valid |-> FALSE, file |-> AbsentFile, loaded |-> <<>>, threw |-> FALSE]
NoEvict == [valid |-> FALSE, at |-> 0, before |-> <<>>, cutoff |-> 0,
            after |-> <<>>, again |-> FALSE, saved |-> TRUE]
NoDelivery == [n |-> 0, at |-> 0, epoch |-> <<0, 0>>, fresh |-> FALSE,
               saved |-> TRUE]
NoObs == [kind |-> "none", id |-> 0, text |-> <<>>, key |-> <<>>, at |-> 0,
          prior |-> <<>>, reply |-> NoReply, replied |-> FALSE,
          stored |-> <<>>, changed |-> FALSE, again |-> FALSE,
          earlier |-> NoDelivery, epoch |-> <<0, 0>>, saved |-> TRUE,
          before |-> <<>>, ids |-> 0, disk |-> AbsentFile, counted |-> FALSE]

\* The observation of an eviction.  last is the observation of the step
\* before: the run is a repeat when that step evicted with the same cutoff
\* and left the table this run starts from.  saved is whether the
\* writeFileSync of its persist() went through.
Eviction(m, t, cutoff, after, last, io) ==
  [valid |-> TRUE, at |-> t, before |-> m, cutoff |-> cutoff, after |-> after,
   again |-> (last.valid /\ last.cutoff = cutoff /\ last.after = m),
   saved |-> (io = "ok")]

\* midnightPrune() from the loop on: the values it leaves.
midnightPruneAt(m, f, t, io, last, cutoff, after) ==
  [history           |-> after,
   file              |-> persist(after, f, io),
   processedIds      |-> {},
   lastPruneMidnight |-> cutoff,
   evicted           |-> Eviction(m, t, cutoff, after, last, io)]

\* midnightPrune() with its cutoffTimestamp.
midnightPruneFrom(m, f, t, io, last, cutoff) ==
  (CHOOSE r \in {midnightPruneAt(m, f, t, io, last, cutoff, after) :
                 after \in {PruneHistory(m, cutoff)}} : TRUE)

\* midnightPrune().
midnightPrune(m, f, t, z, io, last) ==
  (CHOOSE r \in {midnightPruneFrom(m, f, t, io, last, cutoff) :
                 cutoff \in {getIsraelMidnight(t, z)}} : TRUE)

\* processedIds.forEach of prune() in bot.js: excess is a const that is
\* never decremented, so once the Set is over MAX_IDS every id is deleted.
TrimIds(ids, pictures) ==
  IF pictures + Cardinality(ids) > MAX_IDS
    THEN [ids |-> {}, pictures |-> 0]
    ELSE [ids |-> ids, pictures |-> pictures]

\* prune() of bot.js up to persist(), from the loop on.
pruneAt(m, f, t, io, last, cutoff, after) ==
  [history |-> after,
   file    |-> persist(after, f, io),
   evicted |-> Eviction(m, t, cutoff, after, last, io)]

\* prune() of bot.js up to persist(), with its cutoff.
pruneFrom(m, f, t, io, last, cutoff) ==
  (CHOOSE r \in {pruneAt(m, f, t, io, last, cutoff, after) :
                 after \in {PruneHistory(m, cutoff)}} : TRUE)

\* prune() of bot.js up to persist(): the 24-hour window and the save.
prune(m, f, t, io, last) == pruneFrom(m, f, t, io, last, t - DAY_MS)

\* Module load after the startup load: midnightPrune(), which bot.js does
\* not have.
StartupWith(v, f, t, z, io, last, loaded) ==
  (IF v = "rolling"
     THEN [history |-> loaded.table, file |-> f, processedIds |-> {},
           lastPruneMidnight |-> 0, evicted |-> NoEvict]
     ELSE midnightPrune(loaded.table, f, t, z, io, last))
  @@ [boot |-> [valid |-> TRUE, file |-> f, loaded |-> loaded.table,
                threw |-> loaded.threw]]

\* Module load: the startup load, then midnightPrune().
Startup(v, f, t, z, io, last) ==
  StartupWith(v, f, t, z, io, last, LoadHistory(f))

\* The state a start leaves: the Set is empty.
Started(up) ==
  /\ history = up.history
  /\ file = up.file
  /\ processedIds = up.processedIds
  /\ lastPruneMidnight = up.lastPruneMidnight
  /\ evicted = up.evicted
  /\ pictureIds = 0
  /\ pictureIn = {}
  /\ boot = up.boot

\* The zones of the host to start in.  bot.js reads the zone of its host
\* nowhere but in msgDate, for a stamped row: on a page without stamps one
\* zone stands for all.
HostZones(v, stamped) ==
  IF v = "rolling" /\ ~stamped THEN {"Asia/Jerusalem"} ELSE LocalZones

InitOf(v, d, files) ==
  /\ variant = v
  /\ now = StartNow
  /\ newest = 0
  /\ pictureLast = 0
  /\ restarts = 0
  /\ disruptions = d
  /\ \E b \in (IF v = "rolling" THEN BOOLEAN ELSE {FALSE}) :
       /\ texts = [id \in 1..MaxEvents |-> [Unread EXCEPT !.stamped = b]]
       /\ zone \in HostZones(v, b)
  /\ admitted = {}
  /\ deliveries = <<>>
  /\ recorded = {}
  /\ page = "up"
  /\ obs = NoObs
  /\ \E f \in files :
       Started(Startup(v, f, StartNow, zone, "ok", NoEvict))
  /\ ticks = [i \in TickIds |-> IdleTick]
  /\ consecutiveFailures = 0
  /\ alive = TRUE

InitFrom(v, d) == InitOf(v, d, InitFiles)
InitWith(v) == InitFrom(v, 0)

Init == InitWith("current")
InitBackup == InitWith("backup")
InitRolling == InitWith("rolling")

\* The observations of a step that neither starts the process, nor evicts,
\* nor handles an event.
Quiet == boot' = NoBoot /\ evicted' = NoEvict /\ obs' = NoObs

\* The rows without text whose data-id a callback (t) awaits.
Held(t) == {t[j].pic : j \in {j \in TickIds : t[j].pc = "attr" /\ t[j].id = 0}}

\* The rows without text a callback may still ask the Set about: those, and
\* the last row of the chat.  No callback can come to hold another row, so
\* what the Set says of the others is never read.
Pollable(t, last) == Held(t) \cup (IF last = 0 THEN {} ELSE {last})

\* A data-id is unique.  A row without text is named by a number no
\* pollable row bears: one more than the callbacks can hold is enough.
PictureNames == 1..(Cardinality(TickIds) + 1)
FreshPicture(t) ==
  CHOOSE n \in PictureNames \ Held(t) :
    \A m \in PictureNames \ Held(t) : n <= m

(***************************************************************************)
(* The environment: the chat, the clock, the supervisor.                   *)
(***************************************************************************)
\* A message arrives and becomes the newest row (newest is its data-id);
\* a stamped row carries the time it was sent.
Arrival(budget) ==
  /\ newest < budget
  /\ newest' = newest + 1
  /\ pictureLast' = 0
  /\ pictureIn' = pictureIn \cap Held(ticks)
  /\ texts' = [texts EXCEPT ![newest + 1].sent =
                               IF texts[newest + 1].stamped THEN now ELSE 0]
  /\ Quiet
  /\ UNCHANGED <<variant, zone,
                 now, history, processedIds, pictureIds,
                 lastPruneMidnight, file, ticks, consecutiveFailures, alive,
                 restarts, disruptions, admitted, deliveries,
                 recorded, page>>

NewMessage == Arrival(MaxEvents)

Advance ==
  /\ now < StartNow + MaxClock * ClockStep
  /\ now' = now + ClockStep
  /\ Quiet
  /\ UNCHANGED <<variant, zone, pictureLast,
                 newest, history, processedIds, pictureIds, pictureIn,
                 lastPruneMidnight, file, ticks, consecutiveFailures, alive,
                 restarts, disruptions, texts, admitted, deliveries,
                 recorded, page>>

\* A row without a text node arrives and becomes the last row.
NewPicture ==
  /\ pictureIds < MaxPictures
  /\ pictureLast' = FreshPicture(ticks)
  /\ pictureIn' = pictureIn \cap Held(ticks)
  /\ Quiet
  /\ UNCHANGED <<variant, zone, now, newest, history, processedIds,
                 pictureIds, lastPruneMidnight, file, ticks,
                 consecutiveFailures, alive, restarts, disruptions, texts,
                 admitted, deliveries, recorded, page>>

\* The page stops answering between two polls (the session is lost, the
\* browser is gone): a disruption.
PageDown ==
  /\ alive /\ page = "up"
  /\ \A i \in TickIds : ticks[i].pc = "idle"
  /\ disruptions < MaxDisruptions
  /\ page' = "down"
  /\ disruptions' = disruptions + 1
  /\ Quiet
  /\ UNCHANGED <<variant, zone, pictureLast,
                 now, newest, history, processedIds, pictureIds, pictureIn,
                 lastPruneMidnight, file, ticks, consecutiveFailures, alive,
                 restarts, texts, admitted, deliveries, recorded>>

\* The page answers again; it does not once context.close() was called.
PageUp ==
  /\ alive /\ page = "down"
  /\ \A i \in TickIds : ticks[i].pc # "close"
  /\ page' = "up"
  /\ Quiet
  /\ UNCHANGED <<variant, zone, pictureLast,
                 now, newest, history, processedIds, pictureIds, pictureIn,
                 lastPruneMidnight, file, ticks, consecutiveFailures, alive,
                 restarts, disruptions, texts, admitted, deliveries, recorded>>

\* What writeFileSync may do with d disruptions so far: fail only while
\* disruptions remain.
DiskOutcomesAt(d) ==
  IF d < MaxDisruptions
    THEN {"ok", "fail"} \cup KillOutcomes
    ELSE {"ok"}
DisruptedBy(d, io) == IF io = "ok" THEN d ELSE d + 1

\* The same for the first writeFileSync of a step.
DiskOutcomes == DiskOutcomesAt(disruptions)
Disrupted(io) == DisruptedBy(disruptions, io)

\* The process is gone: no callback is left.
Killed ==
  /\ alive' = FALSE
  /\ ticks' = [j \in TickIds |-> IdleTick]
  /\ UNCHANGED consecutiveFailures

\* What is seen of a process killed while it saved: f is the file before
\* the callback's saves.
KilledSaving(id, historyKey, cur, f) ==
  [NoObs EXCEPT !.kind = "killed", !.id = id, !.key = historyKey, !.at = cur,
                !.disk = f]

\* The assignments of a midnightPrune() that leaves the seen ids alone.
PrunedKeepingIds(r) ==
  /\ history' = r.history
  /\ file' = r.file
  /\ UNCHANGED <<processedIds, pictureIds, pictureIn>>
  /\ lastPruneMidnight' = r.lastPruneMidnight
  /\ evicted' = r.evicted

\* The assignments of midnightPrune() and of a start.
Pruned(r) ==
  /\ history' = r.history
  /\ file' = r.file
  /\ processedIds' = r.processedIds
  /\ pictureIds' = 0
  /\ pictureIn' = {}
  /\ lastPruneMidnight' = r.lastPruneMidnight
  /\ evicted' = r.evicted
Restarted(up) == Pruned(up) /\ boot' = up.boot

\* The process is started again (after a kill, a crash or its own exit).
Restart ==
  /\ disruptions < MaxDisruptions \/ ~alive
  /\ restarts' = restarts + 1
  /\ disruptions' = IF alive THEN disruptions + 1 ELSE disruptions
  /\ Restarted(Startup(variant, file, now, zone, "ok", evicted))
  /\ ticks' = [i \in TickIds |-> IdleTick]
  /\ consecutiveFailures' = 0
  /\ alive' = TRUE
  /\ obs' = NoObs
  /\ UNCHANGED <<variant, zone, pictureLast,
                 now, newest, texts, admitted, deliveries,
                 recorded>>
  /\ page' = "up"

(***************************************************************************)
(* The polling callback of setInterval, cut at its awaits.                 *)
(***************************************************************************)
\* The catch block of the callback, up to its end or, in part_000 with the
\* count at MAX_CONSECUTIVE_FAILURES or over, up to `await context.close()`:
\* the process runs on, with its timer, until close() settles.
Catch(i) ==
  IF variant = "current"
    THEN /\ consecutiveFailures' = consecutiveFailures + 1
         /\ ticks' = [ticks EXCEPT ![i] =
                        IF consecutiveFailures + 1 >= MAX_CONSECUTIVE_FAILURES
                          THEN [IdleTick EXCEPT !.pc = "close"]
                          ELSE IdleTick]
         /\ UNCHANGED alive
    ELSE /\ ticks' = [ticks EXCEPT ![i] = IdleTick]
         /\ UNCHANGED <<consecutiveFailures, alive>>

\* A return of the callback; part_000 sets consecutiveFailures = 0 first.
Return(i) ==
  /\ ticks' = [ticks EXCEPT ![i] = IdleTick]
  /\ consecutiveFailures' = IF variant = "current" THEN 0 ELSE consecutiveFailures
  /\ UNCHANGED alive

\* The daily prune check at the head of the callback (not in bot.js).
PruneCheck(i, overlap, evict) ==
  IF evict
    THEN \E io \in (IF overlap THEN {"ok"} ELSE DiskOutcomes) :
           /\ \E r \in {midnightPrune(history, file, now, zone, io, evicted)} :
                Pruned(r)
           /\ disruptions' = IF overlap THEN disruptions + 1 ELSE Disrupted(io)
           /\ IF io \in KillOutcomes
                THEN /\ Killed
                     /\ obs' = KilledSaving(0, <<>>, now, file)
                ELSE /\ ticks' = [ticks EXCEPT ![i].pc = "rows"]
                     /\ obs' = NoObs
                     /\ UNCHANGED <<consecutiveFailures, alive>>
    ELSE /\ evicted' = NoEvict
         /\ disruptions' = IF overlap THEN disruptions + 1 ELSE disruptions
         /\ ticks' = [ticks EXCEPT ![i].pc = "rows"]
         /\ obs' = NoObs
         /\ UNCHANGED <<history, file, processedIds, pictureIds, pictureIn,
                        lastPruneMidnight, consecutiveFailures, alive>>

\* A callback is in flight in slot j: it has started and has neither
\* returned nor reached the end of its catch block.
InFlight(j) == ticks[j].pc \notin {"idle", "close"}

\* The timer fires: the daily prune check, up to `await page.$$(...)`.
\* The callbacks are interchangeable: the second slot is used only while the
\* first is taken.  A callback that starts while another is in flight is a
\* disruption; one that starts while close() is pending is not.
TickStart(i) ==
  /\ alive /\ ticks[i].pc = "idle"
  /\ i = 1 \/ ticks[1].pc # "idle"
  /\ (\E j \in TickIds : InFlight(j)) => disruptions < MaxDisruptions
  /\ PruneCheck(i, \E j \in TickIds : InFlight(j),
                variant # "rolling"
                  /\ getIsraelMidnight(now, zone) > lastPruneMidnight)
  /\ boot' = NoBoot
  /\ UNCHANGED <<variant, zone, pictureLast,
                 now, newest, restarts, texts, admitted,
                 deliveries, recorded, page>>

\* What tells one filling of the seen-id Set from the next: midnightPrune()
\* moves lastPruneMidnight when it empties the Set, and the trim of bot.js
\* deletes the ids of the rows without text with the rest.
IdsGeneration == <<lastPruneMidnight, pictureIds>>

\* An insertion put off until after the next await.
AddIdAfterAwait(ids, id) == ids

\* processedIds.add(messageId), the statement after the test.
AddId(ids, id) == ids \cup {id}

\* `await page.$$('div[data-id]')` has resolved: without a row the callback
\* returns; with rows it takes the last one (id 0: a row without text, pic
\* its name) and awaits its data-id.
TickRows(i) ==
  /\ alive /\ ticks[i].pc = "rows" /\ page = "up"
  /\ IF newest = 0 /\ pictureLast = 0
       THEN Return(i)
       ELSE /\ ticks' = [ticks EXCEPT
                           ![i].pc = "attr",
                           ![i].id = IF pictureLast = 0 THEN newest ELSE 0,
                           ![i].pic = pictureLast]
            /\ UNCHANGED <<consecutiveFailures, alive>>
  /\ Quiet
  /\ UNCHANGED <<variant, zone, pictureLast,
                 now, newest, history, processedIds, pictureIds, pictureIn,
                 lastPruneMidnight, file, restarts, disruptions, texts,
                 admitted, deliveries, recorded, page>>

\* The seen-id filter on a row without text: has and add.
PictureRowAttr(i) ==
  /\ IF ticks[i].pic \in pictureIn
       THEN /\ Return(i)
            /\ UNCHANGED pictureIds
            /\ pictureIn' = pictureIn \cap Pollable(ticks', pictureLast)
       ELSE /\ pictureIds' = pictureIds + 1
            /\ ticks' = [ticks EXCEPT ![i].pc = "text", ![i].pic = 0,
                                      ![i].gen = IdsGeneration]
            /\ pictureIn' = (pictureIn \cup {ticks[i].pic})
                              \cap Pollable(ticks', pictureLast)
            /\ UNCHANGED <<consecutiveFailures, alive>>
  /\ obs' = NoObs
  /\ UNCHANGED <<processedIds, admitted>>

\* `await getAttribute('data-id')` of the row has resolved: the seen-id
\* filter, has and add in one synchronous stretch, up to the awaits that
\* read the text.
TickAttr(i) ==
  /\ alive /\ ticks[i].pc = "attr" /\ page = "up"
  /\ \E id \in {ticks[i].id} :
       IF id = 0 THEN PictureRowAttr(i)
       ELSE /\ IF id \in processedIds
                 THEN /\ Return(i)
                      /\ obs' = [NoObs EXCEPT !.kind = "seen", !.id = id]
                      /\ UNCHANGED <<processedIds, admitted>>
                 ELSE /\ processedIds' = AddId(processedIds, id)
                      /\ ticks' = [ticks EXCEPT ![i].pc = "text",
                                                ![i].gen = IdsGeneration]
                      /\ admitted' = admitted \cup {<<id, IsraelDayStart(now)>>}
                      /\ obs' = [NoObs EXCEPT
                                   !.kind = "admitted", !.id = id, !.at = now,
                                   !.again = (<<id, IsraelDayStart(now)>>
                                                \in admitted)]
                      /\ UNCHANGED <<consecutiveFailures, alive>>
            /\ UNCHANGED <<pictureIds, pictureIn>>
  /\ boot' = NoBoot /\ evicted' = NoEvict
  /\ UNCHANGED <<variant, zone, pictureLast,
                 now, newest, history,
                 lastPruneMidnight, file, restarts, disruptions, texts,
                 deliveries, recorded, page>>

\* The words of the trimmed text, as each file counts them.
Words(v, messageText) ==
  IF v = "current"
    THEN NonEmptyWords(SplitWhitespace(messageText))
    ELSE SplitWhitespace(messageText)

\* The filter on the message: 1 to 3 words.
Rejected(v, messageText) ==
  IF v = "current"
    THEN \/ Len(Words(v, messageText)) = 0
         \/ Len(Words(v, messageText)) > 3
         \/ Len(messageText) = 0
    ELSE \/ Len(Words(v, messageText)) = 0
         \/ Len(Words(v, messageText)) > 3

\* The date of the observation: `new Date()`, or in bot.js msgDate.
Observed(v, t, z, row) == IF v = "rolling" THEN msgDate(t, z, row) ELSE t

\* A reply built after the append, from the list that holds the current
\* observation too.
ReplyTimesWithCurrent(prev, cur) == Append(prev, cur)

\* The times handed to buildReply for a duplicate.
ReplyTimes(prev, cur) == prev

\* The list stored for the key: [...previousTimestamps, currentTimestamp].
Appended(prev, cur) == Append(prev, cur)

\* An append that is taken back when the save that follows it fails.
HistorySetIfSaved(m, k, list, io) == IF io = "ok" THEN MapSet(m, k, list) ELSE m

\* history.set(historyKey, ...): it is done before persist() is called, and
\* persist() swallows what writeFileSync throws.
HistorySet(m, k, list, io) == MapSet(m, k, list)

\* A list sorted newest first, as times.sort((a, b) => b - a) leaves it.
SortDescending(times) ==
  [j \in 1..Len(times) |-> SortAscending(times)[Len(times) + 1 - j]]

\* An array as a callback holds it: its items, and whether it is the very
\* array the table holds under key (held) or another array, with the same
\* items or not.  history.get(key) || []: the array of the table, or a new
\* empty one.
historyGet(m, k) == [items |-> MapGet(m, k), key |-> k, held |-> MapHas(m, k)]

\* prev.map(d => d.getTime()): a new array.
mapGetTime(arr) == [arr EXCEPT !.held = FALSE]

\* history.set(k, [...prev, msgDate]) has stored a new array under k: an
\* array the table held under k is held no more.
Superseded(arr, k) == IF arr.key = k THEN [arr EXCEPT !.held = FALSE] ELSE arr

\* A call of buildReply with the array of the table itself.
ReplyArgumentAliased(v, prev) == prev

\* The array buildReply is called with.  part_000 and backup/bot.js pass
\* prev.map(d => d.getTime()); bot.js passes prev, after its history.set.
ReplyArgument(v, prev) ==
  IF v = "rolling" THEN Superseded(prev, prev.key) ELSE mapGetTime(prev)

\* times.sort(...) of buildReply: in place, ascending in part_000 and
\* backup/bot.js, descending in bot.js.  m is the table when it runs.
sortInPlace(v, m, times) ==
  IF times.held
    THEN MapSet(m, times.key,
                IF v = "rolling" THEN SortDescending(MapGet(m, times.key))
                                 ELSE SortAscending(MapGet(m, times.key)))
    ELSE m

\* The table as buildReply(msg, times) leaves it: the sort is the one
\* statement of buildReply that writes to anything but its locals.
buildReplyLeaves(v, m, times) == sortInPlace(v, m, times)

\* The reply for a duplicate; bot.js lists the newest first.
ReplyFor(v, messageText, prev, cur) ==
  IF Len(prev) = 0 THEN NoReply
  ELSE IF v = "rolling" THEN buildReplyBot(messageText, prev)
  ELSE buildReply(messageText, ReplyTimes(prev, cur))

\* The deliveries recorded for a key.
DeliveryOf(d, k) == IF MapHas(d, k) THEN MapGet(d, k) ELSE NoDelivery
Delivered(d, k, t, epoch, fresh, saved) ==
  MapSet(d, k, IF DeliveryOf(d, k).n = 0
                 THEN [n |-> 1, at |-> t, epoch |-> epoch, fresh |-> fresh,
                       saved |-> saved]
                 ELSE [DeliveryOf(d, k) EXCEPT !.n = @ + 1])

\* What the row of this id holds: read before, or read now for the first
\* time.
RowContents(id) ==
  IF texts[id].read THEN {texts[id]}
  ELSE {NoTextNode} \cup
       {TextNode(t, texts[id].sent, texts[id].stamped) : t \in TextsFor(variant)}

\* What is seen of an event that got as far as the word filter.
Seen(id, messageText, cur) ==
  [NoObs EXCEPT !.id = id, !.text = messageText, !.at = cur,
                !.epoch = <<restarts, lastPruneMidnight>>]
Judged(id, messageText, historyKey, cur, prev, reply) ==
  [Seen(id, messageText, cur) EXCEPT
     !.kind = "judged", !.key = historyKey, !.prior = prev, !.reply = reply,
     !.replied = (Len(prev) > 0),
     !.earlier = DeliveryOf(deliveries, historyKey),
     !.ids = pictureIds + Cardinality(processedIds)]

\* The ids history.set has run for, once it has run for id in a process
\* that outlives the save.
Recorded(id, io) ==
  IF io \in KillOutcomes THEN recorded ELSE recorded \cup {id}

\* The lookup and what follows it.  m and f are the table and the file as
\* prune() of bot.js left them (as they are in the other two), prev is
\* history.get(key) || [], io is what the disk does with the writeFileSync
\* of the append.  For a first occurrence: the append and the save.
\* For a duplicate part_000 builds the reply and awaits the chat input
\* before it appends; the other two append and save first.
Lookup(i, id, messageText, historyKey, cur, io, m, f, prev) ==
  /\ deliveries' = Delivered(deliveries, historyKey, cur,
                             <<restarts, lastPruneMidnight>>,
                             ~MapHas(history, historyKey), io = "ok")
  /\ IF variant = "current" /\ Len(prev) > 0
       THEN /\ io = "ok"
            /\ ticks' = [ticks EXCEPT ![i] =
                           [pc |-> "send", id |-> id, pic |-> 0, text |-> messageText,
                            key |-> historyKey, prev |-> prev, cur |-> cur,
                            epoch |-> lastPruneMidnight,
                            gen |-> ticks[i].gen]]
            /\ obs' = Judged(id, messageText, historyKey, cur, prev,
                             ReplyFor(variant, messageText, prev, cur))
            /\ history' = buildReplyLeaves(variant, history,
                                ReplyArgument(variant,
                                              historyGet(history, historyKey)))
            /\ UNCHANGED <<file, consecutiveFailures, alive, recorded>>
       ELSE /\ \E set \in {HistorySet(m, historyKey, Appended(prev, cur), io)} :
                 /\ file' = persist(set, f, io)
                 /\ history' = IF Len(prev) > 0 /\ io \notin KillOutcomes
                                 THEN buildReplyLeaves(
                                        variant, set,
                                        ReplyArgument(variant,
                                                      historyGet(m, historyKey)))
                                 ELSE set
            /\ recorded' = Recorded(id, io)
            /\ obs' = IF io \in KillOutcomes
                         THEN KilledSaving(id, historyKey, cur, file)
                         ELSE [Judged(id, messageText, historyKey, cur, prev,
                                      ReplyFor(variant, messageText, prev, cur))
                                 EXCEPT !.stored = Appended(prev, cur),
                                        !.changed = TRUE,
                                        !.saved = (io = "ok"),
                                        !.before = MapGet(m, historyKey),
                                        !.counted = (id \in recorded)]
            /\ IF io \in KillOutcomes THEN Killed
               ELSE IF Len(prev) > 0
                 THEN /\ ticks' = [ticks EXCEPT ![i] =
                           [pc |-> "send", id |-> id, pic |-> 0, text |-> messageText,
                            key |-> historyKey, prev |-> prev, cur |-> cur,
                            epoch |-> lastPruneMidnight,
                            gen |-> ticks[i].gen]]
                      /\ UNCHANGED <<consecutiveFailures, alive>>
                 ELSE Return(i)

\* The process of bot.js is killed inside the writeFileSync of prune():
\* the table is swept, the file is what the kill left of it, and neither
\* the trim of the Set nor the lookup is reached.
KilledPruning(id, historyKey, cur, swept) ==
  /\ history' = swept.history
  /\ file' = swept.file
  /\ evicted' = swept.evicted
  /\ deliveries' = Delivered(deliveries, historyKey, cur,
                             <<restarts, lastPruneMidnight>>,
                             ~MapHas(history, historyKey), FALSE)
  /\ obs' = KilledSaving(id, historyKey, cur, file)
  /\ Killed
  /\ UNCHANGED <<processedIds, pictureIds, pictureIn, recorded>>

\* prune() of bot.js has run (swept, ids); in the other two nothing has.
AfterPrune(i, id, messageText, historyKey, cur, io, swept, ids) ==
  /\ processedIds' = ids.ids
  /\ pictureIds' = ids.pictures
  /\ pictureIn' = IF ids.pictures = 0 THEN {} ELSE pictureIn
  /\ evicted' = swept.evicted
  /\ \E prev \in {MapGet(swept.history, historyKey)} :
       Lookup(i, id, messageText, historyKey, cur, io, swept.history,
              swept.file, prev)

\* The row has been read: the word filter, and for a message that passes
\* it prune() in bot.js, then the lookup.  bot.js calls writeFileSync twice
\* in this stretch, in the persist() of prune() and in the persist() after
\* history.set: each call meets the disk on its own (io1, io2), and a
\* call that throws is caught inside persist(), so that the next one is
\* made.
Filter(i, id, row, messageText, cur) ==
  /\ texts' = [texts EXCEPT ![id] = row]
  /\ IF ~row.hasText
       THEN /\ Return(i)
            /\ obs' = NoObs
            /\ evicted' = NoEvict
            /\ UNCHANGED <<history, file, deliveries, recorded, disruptions,
                           processedIds, pictureIds, pictureIn>>
     ELSE IF Rejected(variant, messageText)
       THEN /\ Return(i)
            /\ obs' = [Seen(id, messageText, cur) EXCEPT !.kind = "rejected"]
            /\ evicted' = NoEvict
            /\ UNCHANGED <<history, file, deliveries, recorded, disruptions,
                           processedIds, pictureIds, pictureIn>>
     ELSE IF variant = "rolling"
       THEN \E io1 \in DiskOutcomes :
              \E swept \in {prune(history, file, now, io1, evicted)} :
                IF io1 \in KillOutcomes
                  THEN /\ disruptions' = Disrupted(io1)
                       /\ KilledPruning(id, toLowerCase(messageText), cur,
                                        swept)
                  ELSE \E io2 \in DiskOutcomesAt(Disrupted(io1)) :
                         /\ disruptions' = DisruptedBy(Disrupted(io1), io2)
                         /\ AfterPrune(i, id, messageText,
                                       toLowerCase(messageText), cur, io2,
                                       swept,
                                       TrimIds(processedIds, pictureIds))
     ELSE \E io \in DiskOutcomes :
            /\ disruptions' = Disrupted(io)
            /\ AfterPrune(i, id, messageText, toLowerCase(messageText), cur,
                          io,
                          [history |-> history, file |-> file,
                           evicted |-> NoEvict],
                          [ids |-> processedIds, pictures |-> pictureIds])

\* The text of the row has been read (and in bot.js its
\* data-pre-plain-text): the rest of the callback up to its next await.
TickText(i) ==
  /\ alive /\ ticks[i].pc = "text" /\ page = "up"
  /\ IF ticks[i].id = 0
       THEN /\ Return(i)
            /\ obs' = NoObs
            /\ evicted' = NoEvict
            /\ UNCHANGED <<history, file, deliveries, recorded, disruptions,
                           processedIds, pictureIds, pictureIn, texts>>
       ELSE \E row \in RowContents(ticks[i].id) :
              \E messageText \in {Trim(row.text)} :
                \E cur \in {Observed(variant, now, zone, row)} :
                  Filter(i, ticks[i].id, row, messageText, cur)
  /\ boot' = NoBoot
  /\ UNCHANGED <<variant, zone, pictureLast,
                 now, newest, lastPruneMidnight, restarts,
                 admitted, page>>

\* What is seen of a reply that went out or did not.
Sent(t, outcome) ==
  [NoObs EXCEPT !.kind = "sent", !.id = t.id, !.text = t.text, !.key = t.key,
                !.at = t.cur, !.prior = t.prev,
                !.replied = (outcome = "sent"),
                !.epoch = <<restarts, t.epoch>>]

\* The chat input has answered: the reply is typed ("sent") or the input is
\* not there ("hidden"); part_000 then appends and persists.
Send(i, t) ==
  \E outcome \in {"sent", "hidden"} :
    IF variant = "current"
      THEN \E io \in DiskOutcomes :
             /\ history' = HistorySet(history, t.key,
                                      Appended(t.prev, t.cur), io)
             /\ file' = persist(history', file, io)
             /\ disruptions' = Disrupted(io)
             /\ recorded' = Recorded(t.id, io)
             /\ obs' = IF io \in KillOutcomes
                          THEN KilledSaving(t.id, t.key, t.cur, file)
                          ELSE [Sent(t, outcome) EXCEPT
                                  !.stored = Appended(t.prev, t.cur),
                                  !.changed = TRUE, !.saved = (io = "ok"),
                                  !.before = MapGet(history, t.key),
                                  !.counted = (t.id \in recorded)]
             /\ IF io \in KillOutcomes THEN Killed ELSE Return(i)
      ELSE /\ obs' = Sent(t, outcome)
           /\ Return(i)
           /\ UNCHANGED <<history, file, disruptions, recorded>>

TickSend(i) ==
  /\ alive /\ ticks[i].pc = "send" /\ page = "up"
  /\ Send(i, ticks[i])
  /\ boot' = NoBoot /\ evicted' = NoEvict
  /\ UNCHANGED <<variant, zone, pictureLast,
                 now, newest, processedIds, pictureIds, pictureIn,
                 lastPruneMidnight, restarts, texts, admitted, deliveries,
                 page>>

\* What is seen of a callback that threw: for one that was sending the
\* reply ("threw"), the observation it was handling; for one that had not
\* looked its event up ("failed"), the id if it had one.
Threw(t) ==
  IF t.pc = "send"
    THEN [NoObs EXCEPT !.kind = "threw", !.id = t.id, !.text = t.text,
                       !.key = t.key, !.at = t.cur, !.prior = t.prev]
    ELSE [NoObs EXCEPT !.kind = "failed", !.id = t.id]

\* An await of the callback rejects: the catch block runs and the rest of
\* the callback does not.  While the page is down every await on it
\* rejects; on a page that is up a rejection (a timeout, a detached row) is
\* a disruption.
TickThrows(i) ==
  /\ alive /\ ticks[i].pc \in {"rows", "attr", "text", "send"}
  /\ page = "down" \/ disruptions < MaxDisruptions
  /\ disruptions' = IF page = "down" THEN disruptions ELSE disruptions + 1
  /\ Catch(i)
  /\ boot' = NoBoot /\ evicted' = NoEvict /\ obs' = Threw(ticks[i])
  /\ pictureIn' = pictureIn \cap Pollable(ticks', pictureLast)
  /\ UNCHANGED <<variant, zone, pictureLast,
                 now, newest, history, processedIds, pictureIds,
                 lastPruneMidnight, file, restarts, texts, admitted,
                 deliveries, recorded, page>>

\* What is seen of a process that ended itself.
Exited == [NoObs EXCEPT !.kind = "exited"]

\* `await context.close()` of the catch block has settled: process.exit(1)
\* (a close() that rejects ends the process as an unhandled rejection).
TickClosed(i) ==
  /\ alive /\ ticks[i].pc = "close"
  /\ alive' = FALSE
  /\ ticks' = [j \in TickIds |-> IdleTick]
  /\ boot' = NoBoot /\ evicted' = NoEvict /\ obs' = Exited
  /\ UNCHANGED <<variant, zone, pictureLast,
                 now, newest, history, processedIds, pictureIds, pictureIn,
                 lastPruneMidnight, file, consecutiveFailures, restarts,
                 disruptions, texts, admitted, deliveries, recorded, page>>

\* The steps the three programs share.
Step ==
  \/ NewMessage
  \/ Advance
  \/ PageDown
  \/ PageUp
  \/ Restart
  \/ \E i \in TickIds : TickStart(i)
  \/ \E i \in TickIds : TickRows(i)
  \/ \E i \in TickIds : TickAttr(i)
  \/ \E i \in TickIds : TickText(i)
  \/ \E i \in TickIds : TickSend(i)
  \/ \E i \in TickIds : TickThrows(i)

\* part_000: the catch block may end the process.
Next ==
  \/ Step
  \/ \E i \in TickIds : TickClosed(i)

\* part_000 and backup/bot.js, and bot.js in a chat of messages, on every
\* host and from every file.
Spec == Init /\ [][Next]_vars
SpecBackup == InitBackup /\ [][Step]_vars
SpecRolling == InitRolling /\ [][Step]_vars

\* A step of a polling callback: its start by the timer, or its resumption
\* after an await that resolved or rejected.
Tick ==
  \E i \in TickIds :
    \/ TickStart(i) \/ TickRows(i) \/ TickAttr(i) \/ TickText(i)
    \/ TickSend(i) \/ TickClosed(i) \/ TickThrows(i)

\* setInterval keeps firing while the process runs, and an await of a
\* callback that has started settles: while a callback can start or go on,
\* one does.  Nothing obliges a message to arrive, the clock to be read at
\* a later minute, or a supervisor to restart the process.
Fairness == WF_vars(Tick)

\* The runs of a host in the configured zone that starts from the
\* well-formed file.
AtHome == zone = "Asia/Jerusalem" /\ MapHas(history, <<"o", "k">>)
InitAtHome == Init /\ AtHome
InitRollingAtHome == InitRolling /\ AtHome
FairSpec == InitAtHome /\ [][Next]_vars /\ Fairness
FairSpecRolling == InitRollingAtHome /\ [][Step]_vars /\ Fairness

\* bot.js left undisturbed (one callback at a time, every write and await
\* succeeding, no restart) in a chat where rows without text arrive too,
\* one at a time, on a host in the configured zone that starts without a
\* file.
InitCeiling ==
  /\ InitFrom("rolling", MaxDisruptions)
  /\ zone = "Asia/Jerusalem"
  /\ file = AbsentFile
NextCeiling ==
  \/ NewPicture
  \/ Arrival(MaxCeilingEvents)
  \/ \E i \in TickIds : TickStart(i)
  \/ \E i \in TickIds : TickRows(i)
  \/ \E i \in TickIds : TickAttr(i)
  \/ \E i \in TickIds : TickText(i)
  \/ \E i \in TickIds : TickSend(i)
SpecCeiling == InitCeiling /\ [][NextCeiling]_vars

\* The three files, each started from a file whose list is not in the
\* order of time.
InitReplies ==
  \E v \in {"current", "backup", "rolling"} : InitOf(v, 0, {UnsortedFile})
SpecReplies == InitReplies /\ [][Next]_vars

\* part_000 and backup/bot.js left undisturbed, under the fairness of the
\* timer.
FairSpecCalm ==
  InitFrom("current", MaxDisruptions) /\ AtHome /\ [][Next]_vars /\ Fairness
FairSpecCalmBackup ==
  InitFrom("backup", MaxDisruptions) /\ AtHome /\ [][Step]_vars /\ Fairness

(***************************************************************************)
(* What the properties below are stated with.                              *)
(***************************************************************************)
\* The words of a text as the specification counts them: the maximal runs
\* of non-whitespace characters.
WordCount(text) == Len(NonEmptyWords(SplitWhitespace(Trim(text))))

\* An instant as zone-local HH:MM in the configured zone: <<HH, MM>> with
\* the hours 00 to 23.
ZoneHHMM(t) ==
  <<((t + IsraelOffset(t)) % MinutesPerDay) \div 60,
    ((t + IsraelOffset(t)) % MinutesPerDay) % 60>>

\* The instants of a list that are at or after a boundary, in order.
AtOrAfter(times, b) == SelectSeq(times, LAMBDA t : t >= b)

\* The keys of a table are distinct.
DistinctKeys(m) == \A i, j \in 1..Len(m) : m[i].key = m[j].key => i = j

\* Two tables hold the same keys with the same lists.
SameTable(a, b) ==
  /\ DistinctKeys(a) /\ DistinctKeys(b)
  /\ MapKeys(a) = MapKeys(b)
  /\ \A k \in MapKeys(a) : MapGet(a, k) = MapGet(b, k)

\* The instants a file's entry holds.
InstantsOf(entry) == [j \in 1..Len(entry.items) |-> DateFromString(entry.items[j])]

(***************************************************************************)
(* C1                                                                      *)
(***************************************************************************)
\* C1: when a text of one to three words is delivered twice, with no
\* eviction and no restart in between, the first delivery (its key absent
\* from the table) gets no reply, and the second gets a reply whose list is
\* exactly the first delivery's time.
C1_SecondDeliveryCitesFirst ==
  obs.kind = "judged" /\ WordCount(obs.text) \in 1..3 =>
    /\ obs.prior = <<>> => ~obs.replied /\ obs.reply = NoReply
    /\ (obs.earlier.n = 1 /\ obs.earlier.fresh /\ obs.earlier.epoch = obs.epoch) =>
         /\ obs.replied
         /\ obs.prior = <<obs.earlier.at>>
         /\ obs.reply.times = <<IsraelHHMM(obs.earlier.at)>>

\* A second delivery of a three-word text first seen since the last
\* eviction.
C1_Witness ==
  /\ obs.kind = "judged" /\ WordCount(obs.text) = 3
  /\ obs.earlier.n = 1 /\ obs.earlier.fresh /\ obs.earlier.epoch = obs.epoch
  /\ obs.replied /\ obs.id = 2

(***************************************************************************)
(* C2                                                                      *)
(***************************************************************************)
\* C2: an event whose text has no word or more than three words changes
\* nothing in the history table and gets no reply.
C2_UnqualifiedTextIgnored ==
  obs.kind \in {"judged", "rejected", "sent"} /\ WordCount(obs.text) \notin 1..3 =>
    ~obs.changed /\ ~obs.replied

(***************************************************************************)
(* C3                                                                      *)
(***************************************************************************)
\* C3: an event id that passed the seen-id filter once does not pass it
\* again within the same Israel day.
C3_RedeliveryRejected == obs.kind = "admitted" => ~obs.again

(***************************************************************************)
(* C4                                                                      *)
(***************************************************************************)
\* C4: after an eviction every key left in the table has an occurrence of
\* the current Israel day, and a reply built once the eviction for the
\* current boundary has run cites only occurrences of the current Israel
\* day.
C4_NoCrossDayDuplicate ==
  /\ evicted.valid =>
       \A i \in 1..Len(evicted.after) :
         \E j \in 1..Len(evicted.after[i].times) :
           evicted.after[i].times[j] >= IsraelDayStart(evicted.at)
  /\ (obs.kind = "judged" /\ obs.replied
        /\ lastPruneMidnight = getIsraelMidnight(obs.at, zone)) =>
       \A j \in 1..Len(obs.prior) : obs.prior[j] >= IsraelDayStart(obs.at)

(***************************************************************************)
(* C5                                                                      *)
(***************************************************************************)
\* C5: after a restart the table holds, for every key of the file, exactly
\* the file's occurrences at or after the current Israel day boundary, in
\* order.
C5_RestartKeepsToday ==
  boot.valid /\ restarts > 0 /\ boot.file.kind = "json" =>
    \A i \in 1..Len(boot.file.entries) :
      LET e == boot.file.entries[i]
      IN  e.isArray =>
            AtOrAfter(InstantsOf(e), IsraelDayStart(now)) = MapGet(history, e.key)

(***************************************************************************)
(* C6                                                                      *)
(***************************************************************************)
\* C6: the boundary an eviction uses is 00:00 of the current Israel calendar
\* day whatever the host's timezone: boundary <= now < boundary + 1 day.
C6_BoundaryIsIsraelMidnight ==
  evicted.valid =>
    /\ evicted.cutoff = IsraelDayStart(evicted.at)
    /\ evicted.cutoff <= evicted.at
    /\ evicted.at < evicted.cutoff + MinutesPerDay

(***************************************************************************)
(* C7                                                                      *)
(***************************************************************************)
\* C7: an eviction with boundary b leaves, for every key, exactly the
\* instants of its list that are >= b, in their order, deletes the keys
\* whose list became empty, and leaves no empty list.
C7_EvictionKeepsExactlyRecent ==
  evicted.valid =>
    /\ history = evicted.after
    /\ DistinctKeys(evicted.after)
    /\ MapKeys(evicted.after) =
         {k \in MapKeys(evicted.before) :
            AtOrAfter(MapGet(evicted.before, k), evicted.cutoff) # <<>>}
    /\ \A k \in MapKeys(evicted.after) :
         MapGet(evicted.after, k) = AtOrAfter(MapGet(evicted.before, k), evicted.cutoff)
    /\ \A i \in 1..Len(evicted.after) : evicted.after[i].times # <<>>

\* An eviction that deleted a key, shortened a list, and kept an instant
\* equal to the boundary.
C7_Witness ==
  /\ evicted.valid
  /\ MapKeys(evicted.after) # MapKeys(evicted.before)
  /\ \E k \in MapKeys(evicted.after) :
       /\ Len(MapGet(evicted.after, k)) < Len(MapGet(evicted.before, k))
       /\ \E j \in 1..Len(MapGet(evicted.after, k)) :
            MapGet(evicted.after, k)[j] = evicted.cutoff

(***************************************************************************)
(* C8                                                                      *)
(***************************************************************************)
\* C8: eviction is idempotent: evicting again with the same boundary leaves
\* the table as the first eviction left it, both when the function is
\* applied to its own result and when the process runs it twice in a row.
C8_EvictionIdempotent ==
  evicted.valid =>
    /\ PruneHistory(evicted.after, evicted.cutoff) = evicted.after
    /\ evicted.again => evicted.after = evicted.before

\* A second eviction in a row, on a table the first one had shortened to a
\* non-empty one.
C8_Witness ==
  /\ evicted.valid /\ evicted.again
  /\ evicted.after # <<>>
  /\ boot.valid /\ boot.file.kind = "json"
  /\ Len(boot.file.entries) >= 2

(***************************************************************************)
(* C9                                                                      *)
(***************************************************************************)
\* C9: saving the table and loading the file gives a table with the same
\* keys and, for each key, the same instants in the same order.
C9_SaveLoadRoundTrip ==
  CanStringify(history) =>
    LET loaded == LoadHistory(persist(history, file, "ok"))
    IN  ~loaded.threw /\ SameTable(loaded.table, history)

\* A saved table of two keys, one of them with the same instant twice.
C9_Witness ==
  /\ file = Stringify(history)
  /\ Cardinality(MapKeys(history)) >= 2
  /\ \E k \in MapKeys(history) :
       \E i, j \in 1..Len(MapGet(history, k)) :
         i # j /\ MapGet(history, k)[i] = MapGet(history, k)[j]
  /\ restarts > 0 /\ boot.valid /\ boot.loaded = history

(***************************************************************************)
(* C10                                                                     *)
(***************************************************************************)
\* A file that is absent, empty, not JSON, or holds a malformed entry (a
\* value that is not a list, an item that is not a date).
MalformedFile(f) ==
  \/ f.kind # "json"
  \/ \E i \in 1..Len(f.entries) :
       \/ ~f.entries[i].isArray
       \/ \E j \in 1..Len(f.entries[i].items) :
            DateFromString(f.entries[i].items[j]) = NaN

\* C10: started on such a file, the process does not fail and the table is
\* empty after the load.
C10_BadFileLoadsEmpty ==
  boot.valid /\ MalformedFile(boot.file) => alive /\ boot.loaded = <<>>
(***************************************************************************)
(* C11                                                                     *)
(***************************************************************************)
\* C11: a save that fails is not fatal and takes nothing back.  After an
\* append whose persist() failed the table holds the list with the new
\* occurrence last and the process is alive; and when the first delivery of a text was appended under a failed
\* save, its second delivery in the same process and day is answered with
\* a reply that lists exactly that first occurrence.
C11_FailedSaveKeepsAppend ==
  /\ (variant = "current" /\ obs.changed /\ ~obs.saved) =>
        /\ alive
        /\ MapHas(history, obs.key)
        /\ MapGet(history, obs.key) = obs.stored
        /\ obs.stored[Len(obs.stored)] = obs.at
  /\ (/\ variant = "current" /\ obs.kind = "judged"
      /\ obs.earlier.n = 1 /\ obs.earlier.fresh /\ ~obs.earlier.saved
      /\ obs.earlier.epoch = obs.epoch) =>
        /\ alive
        /\ obs.replied
        /\ obs.prior = <<obs.earlier.at>>
        /\ obs.reply.times = <<IsraelHHMM(obs.earlier.at)>>

\* The second delivery of a text whose first append met a failed save.
C11_Witness ==
  /\ variant = "current" /\ obs.kind = "judged" /\ obs.replied
  /\ obs.earlier.n = 1 /\ obs.earlier.fresh /\ ~obs.earlier.saved
  /\ obs.earlier.epoch = obs.epoch
  /\ file # Stringify(history)

(***************************************************************************)
(* C12                                                                     *)
(***************************************************************************)
\* The instants a table or a loaded file holds for a key.
InstantsFor(m, k) ==
  IF MapHas(m, k) THEN {MapGet(m, k)[j] : j \in 1..Len(MapGet(m, k))} ELSE {}

\* C12: when sending the reply for a duplicate throws, the observation
\* that was being answered is in the key's list all the same, in the table
\* and in the file.
C12_FailedReplyKeepsAppend ==
  obs.kind = "threw" =>
    /\ obs.at \in InstantsFor(history, obs.key)
    /\ obs.at \in InstantsFor(LoadHistory(file).table, obs.key)

(***************************************************************************)
(* C13                                                                     *)
(***************************************************************************)
\* C13: no append is lost to an overlapping callback.  When an event's
\* observation is appended and no eviction ran since its lookup, the list
\* the key gets is the list the table held for it at that moment with the
\* observation added at its end: one longer, every earlier append still in
\* it, also when the observation's instant is already in the list.
C13_NoAppendLost ==
  (/\ obs.changed
   /\ obs.kind = "sent" => obs.epoch = <<restarts, lastPruneMidnight>>) =>
    /\ MapGet(history, obs.key) = Append(obs.before, obs.at)
    /\ Len(MapGet(history, obs.key)) = Len(obs.before) + 1

(***************************************************************************)
(* C14                                                                     *)
(***************************************************************************)
\* Every instant the table holds is at or after a boundary.
NoneBefore(m, b) ==
  \A e \in 1..Len(m) : \A j \in 1..Len(m[e].times) : m[e].times[j] >= b

\* C14: on a host that runs in the configured zone, every instant the
\* table holds is at or after lastPruneMidnight, in every state from the
\* start on: across rollovers, restarts and overlapping callbacks, so that
\* an instant that was evicted is never put back.
C14_NothingBeforeBoundary ==
  (variant = "current" /\ zone = "Asia/Jerusalem") =>
    NoneBefore(history, lastPruneMidnight)

(***************************************************************************)
(* C15                                                                     *)
(***************************************************************************)
\* C15: the set of seen ids is bounded in bot.js.  Whenever no callback is
\* in flight it holds at most MAX_IDS ids, whatever the messages were; and
\* when a message is processed with the set over MAX_IDS, pruning leaves
\* exactly MAX_IDS ids in it.
C15_SeenIdsBounded ==
  variant = "rolling" =>
    /\ (\A i \in TickIds : ticks[i].pc = "idle") =>
          pictureIds + Cardinality(processedIds) <= MAX_IDS
    /\ (obs.kind = "judged" /\ obs.ids > MAX_IDS) =>
          pictureIds + Cardinality(processedIds) = MAX_IDS

(***************************************************************************)
(* C16                                                                     *)
(***************************************************************************)
\* C16: a save is all or nothing.  When the process is killed while it
\* saves, the file it leaves is a complete snapshot: the file as it was
\* before the save, or the file of the table that was being saved.
C16_SaveIsAtomic ==
  obs.kind = "killed" => (file = obs.disk \/ file = Stringify(history))

(***************************************************************************)
(* C17                                                                     *)
(***************************************************************************)
\* C17: the rollover check works in lockstep.  In the step in which a
\* callback of part_000 starts and gets past its check: when the boundary
\* of now is strictly after the recorded one, the table is evicted against
\* the new boundary, the seen-id set is emptied and the recorded boundary
\* becomes the new one, all in that step; otherwise the table, the set and
\* the recorded boundary are unchanged.  No event is admitted, read or
\* looked up in that step.
C17_RolloverInLockstep ==
  [][\A i \in TickIds :
       (variant = "current" /\ ticks[i].pc = "idle" /\ ticks'[i].pc = "rows") =>
         /\ IF getIsraelMidnight(now, zone) > lastPruneMidnight
              THEN /\ history' = PruneHistory(history, getIsraelMidnight(now, zone))
                   /\ processedIds' = {}
                   /\ lastPruneMidnight' = getIsraelMidnight(now, zone)
              ELSE UNCHANGED <<history, processedIds, lastPruneMidnight>>
         /\ UNCHANGED <<texts, admitted, deliveries, newest>>]_vars

\* A callback has just started with a rollover that evicted something: the
\* set is empty and the recorded boundary is the cutoff of the eviction.
C17_Witness ==
  /\ variant = "current" /\ ~boot.valid
  /\ \E i \in TickIds : ticks[i].pc = "rows"
  /\ evicted.valid /\ evicted.at = now
  /\ evicted.before # evicted.after
  /\ newest > 0
  /\ processedIds = {}
  /\ lastPruneMidnight = evicted.cutoff
  /\ history = evicted.after

(***************************************************************************)
(* C18                                                                     *)
(***************************************************************************)
\* The first instant of the Israel day after the one the run starts in.
Rollover == IsraelDayStart(StartNow) + MinutesPerDay

\* C18: the rollover needs no event.  If from some moment on the process
\* runs with the clock in the next Israel day, and its timer keeps firing,
\* then at some moment in that day an eviction runs, whether or not a
\* message arrives.
C18_RolloverWithoutEvents ==
  <>[](alive /\ now >= Rollover) => <>(evicted.valid /\ evicted.at >= Rollover)

(***************************************************************************)
(* C19                                                                     *)
(***************************************************************************)
\* The words of a sequence joined by single spaces.
RECURSIVE JoinWords(_)
JoinWords(ws) ==
  IF Len(ws) = 0 THEN <<>>
  ELSE IF Len(ws) = 1 THEN ws[1]
  ELSE ws[1] \o <<" ">> \o JoinWords(Tail(ws))

\* The case-folded, whitespace-normalized form of a text: lower case, no
\* whitespace at either end, one space between words.
NormalKey(text) ==
  JoinWords(NonEmptyWords(SplitWhitespace(Trim(toLowerCase(text)))))

\* C19: the history key of a qualifying text is its case-folded,
\* whitespace-normalized form, so that a text that differs from a stored
\* one only in letter case, in whitespace at its ends or in the amount of
\* whitespace between its words is detected as a duplicate: when a text is
\* judged not to be one, no other key of the table has its normal form.
C19_KeyIsNormalized ==
  (variant = "current" /\ obs.kind = "judged" /\ ~obs.replied) =>
    \A k \in MapKeys(history) \ {obs.key} :
      NormalKey(k) # NormalKey(texts[obs.id].text)

(***************************************************************************)
(* C20                                                                     *)
(***************************************************************************)
\* The times a reply is to list for the occurrences stored before the
\* append: one per occurrence, oldest first, each rendered as zone-local
\* HH:MM.
PriorTimes(prior) ==
  [j \in 1..Len(prior) |-> ZoneHHMM(SortAscending(prior)[j])]

\* C20: the reply for a duplicate lists exactly the occurrences stored for
\* the key before the current event's append, one rendered time per prior
\* occurrence, never the current observation, in ascending chronological
\* order whatever the order they were appended in.
C20_ReplyListsPriorAscending ==
  /\ (obs.kind = "judged" /\ obs.replied) =>
       obs.reply.times = PriorTimes(obs.prior)
  /\ (obs.kind \in {"judged", "sent"} /\ obs.changed /\ obs.prior # <<>>) =>
       obs.prior = obs.before

(***************************************************************************)
(* C21                                                                     *)
(***************************************************************************)
\* A callback that has looked its event up and has not yet appended and
\* saved it: part_000 between history.get and history.set.
AwaitingAppend(t) == variant = "current" /\ t.pc = "send"

\* C21: persistence is write-through.  After a callback that appended or
\* evicted and whose save went through, the file encodes exactly the table
\* in memory; and the save for an event is issued after its append and
\* before the next event is processed: when an event is looked up, no other
\* event is still waiting for its append and save, so that a crash loses at
\* most the one event in flight.
C21_WriteThrough ==
  /\ (obs.kind \in {"judged", "sent"} /\ obs.changed /\ obs.saved) =>
       file = Stringify(history)
  /\ (evicted.valid /\ evicted.saved /\ obs.kind # "killed"
         /\ (obs.changed => obs.saved)) =>
       file = Stringify(history)
  /\ obs.kind = "judged" =>
       \A i \in TickIds : AwaitingAppend(ticks[i]) => ticks[i].id = obs.id

(***************************************************************************)
(* C22                                                                     *)
(***************************************************************************)
\* The table a callback that judged a duplicate is to leave, formatting
\* apart: part_000 has not appended yet; the other two have appended the
\* observation to the list they looked up, bot.js after its prune().
TableApartFromReply ==
  IF variant = "current" THEN history
  ELSE MapSet(IF variant = "rolling" THEN evicted'.after ELSE history,
              obs'.key, Append(obs'.prior, obs'.at))

\* C22: formatting a reply has no effect on state.  The step that builds
\* the reply for a duplicate leaves the table (its keys, and the contents
\* and order of every stored list) as the lookup, the prune and the append
\* of that step made it, and leaves the seen ids and the recorded eviction
\* boundary as they were (the seen ids of bot.js as its prune() trimmed
\* them).
C22_ReplyFormattingIsPure ==
  [][(obs'.kind = "judged" /\ obs'.replied) =>
       /\ history' = TableApartFromReply
       /\ lastPruneMidnight' = lastPruneMidnight
       /\ processedIds' = IF variant = "rolling"
                             THEN TrimIds(processedIds, pictureIds).ids
                             ELSE processedIds]_vars

\* A reply to a duplicate was built from at least two earlier times that
\* are stored in another order than the sort of buildReply puts them in,
\* and the table holds them in the stored order (with the observation
\* appended, in the two files that append before they reply).
C22_Witness ==
  /\ obs.kind = "judged" /\ obs.replied
  /\ Len(obs.prior) >= 2
  /\ obs.prior # (IF variant = "rolling" THEN SortDescending(obs.prior)
                                         ELSE SortAscending(obs.prior))
  /\ MapGet(history, obs.key) = (IF variant = "current"
                                   THEN obs.prior
                                   ELSE Append(obs.prior, obs.at))

(***************************************************************************)
(* C23                                                                     *)
(***************************************************************************)
\* C23: no event is counted twice over the whole run.  An occurrence is
\* appended for a message id only if none was appended for that id before,
\* also when the message is the newest row again after a day rollover
\* emptied the seen ids or a restart lost them; so a message that was
\* recorded is not reported as a duplicate of itself.
C23_NoEventCountedTwice ==
  (obs.kind \in {"judged", "sent"} /\ obs.changed) => ~obs.counted

(***************************************************************************)
(* C24                                                                     *)
(***************************************************************************)
\* Another callback than i is in flight with the message whose data-id
\* callback i awaits, which it admitted into the seen ids as they are filled
\* now: no eviction has emptied them since.
HeldByAnother(i) ==
  \E j \in TickIds \ {i} :
    /\ ticks[j].pc \in {"text", "send"}
    /\ ticks[j].id = ticks[i].id
    /\ ticks[j].gen = IdsGeneration

\* C24: the membership test on the seen ids and the insertion of the id
\* happen with no suspension point between them.  The step in which a
\* callback is through with its test either admits the id, which was not
\* in the set and is in it when the step ends, or stops; and when another
\* overlapping callback holds the same newest id, with no eviction since it
\* admitted it, the callback stops without appending or replying: exactly
\* one of the two admits the event.
C24_TestAndInsertAtomic ==
  [][\A i \in TickIds :
       (ticks[i].pc = "attr" /\ ticks'[i] # ticks[i]
          /\ obs'.kind \in {"admitted", "seen"}) =>
         /\ obs'.kind = "admitted" =>
              /\ ticks[i].id \notin processedIds
              /\ ticks[i].id \in processedIds'
              /\ ticks'[i].pc = "text" /\ ticks'[i].id = ticks[i].id
              /\ ~HeldByAnother(i)
         /\ HeldByAnother(i) =>
              /\ obs'.kind = "seen"
              /\ ticks'[i] = IdleTick
              /\ UNCHANGED <<history, file, processedIds, deliveries,
                             recorded>>]_vars

\* A callback has just stopped at the seen-id test while the other one is
\* in flight with the same message, admitted since the last eviction.
C24_Witness ==
  /\ obs.kind = "seen"
  /\ \E j \in TickIds :
       /\ ticks[j].pc \in {"text", "send"}
       /\ ticks[j].id = obs.id
       /\ ticks[j].gen = IdsGeneration

(***************************************************************************)
(* C25                                                                     *)
(***************************************************************************)
\* The step ends callback i in its catch block.
EndsFailing(i) ==
  /\ ticks[i].pc \in {"rows", "attr", "text", "send"}
  /\ ticks'[i] # ticks[i]
  /\ obs'.kind \in {"threw", "failed"}

\* The step ends callback i without an error: the event is processed, or
\* there is no row, the id was seen, there is no text, the text is
\* rejected.
EndsWell(i) ==
  /\ ticks[i].pc \in {"rows", "attr", "text", "send"}
  /\ ticks'[i].pc = "idle"
  /\ obs'.kind \notin {"threw", "failed", "killed", "exited"}
  /\ restarts' = restarts

\* C25: the polling loop of part_000 ends the process only after
\* MAX_CONSECUTIVE_FAILURES callbacks in a row have failed.  A callback
\* that ends without an error sets the counter to 0, one that fails adds 1
\* to it, and the process exits exactly when the counter reaches
\* MAX_CONSECUTIVE_FAILURES: the counter never passes it, and it is at
\* MAX_CONSECUTIVE_FAILURES when the process exits by itself.
C25_ExitAfterTenFailures ==
  [][/\ \A i \in TickIds :
          /\ EndsWell(i) => consecutiveFailures' = 0
          /\ EndsFailing(i) =>
               /\ consecutiveFailures' = consecutiveFailures + 1
               /\ consecutiveFailures' <= MAX_CONSECUTIVE_FAILURES
     /\ (alive /\ ~alive' /\ obs'.kind = "exited") =>
          consecutiveFailures' = MAX_CONSECUTIVE_FAILURES]_vars

====
